---- MODULE Spec2Model ----
(***************************************************************************)
(* Model of finetune/association.py: the windowed-inference fold of        *)
(* Association.predict, the setup check of Association._initialize, and    *)
(* the relation codec (AssociationPipeline.text_to_tokens_mask and         *)
(* Association._predict_op).                                               *)
(*                                                                         *)
(* Representation.                                                         *)
(*  - A document text X[d] is a sequence of characters; the character at   *)
(*    Python index i of document d is the pair <<d, i>>, so two slices are *)
(*    equal only if they take the same characters of the same document.    *)
(*  - Python sequences are 0-based, TLA+ sequences are 1-based: Python     *)
(*    s[i] is s[i + 1] here, and chunk_idx, doc_idx keep Python's values.  *)
(*  - A probability is an integer number of thousandths; a mean is an      *)
(*    exact fraction <<numerator, denominator>> in lowest terms.           *)
(***************************************************************************)
EXTENDS Integers, Sequences, FiniteSets, TLC

\* ------------------------------------------------------------------ bounds
\* Most documents in one predict batch.
MaxDocs == 2
\* Most word tokens in one predict batch (special tokens not counted).
MaxTokens == 3
\* Most windows in one predict batch.
MaxChunks == 4
\* Most relation tuples in one text_to_tokens_mask call.
MaxTuples == 2
\* The values of config.max_length explored: 4 gives step_size 0, 5 gives
\* chunk_size 3 and step_size 1, 6 gives chunk_size 4 and step_size 1, 8 gives
\* chunk_size 6 and step_size 2.
MaxLengths == {4, 5, 6, 8}
\* The label vocabulary without the pad class.
Labels == {"A", "B"}

\* ----------------------------------------------------------------- helpers
Min(a, b) == IF a < b THEN a ELSE b

RECURSIVE Gcd(_, _)
Gcd(a, b) == IF b = 0 THEN a ELSE Gcd(b, a % b)

RECURSIVE SumSeq(_)
SumSeq(s) == IF s = <<>> THEN 0 ELSE Head(s) + SumSeq(Tail(s))

RECURSIVE Flatten(_)
Flatten(ss) == IF ss = <<>> THEN <<>> ELSE Head(ss) \o Flatten(Tail(ss))

\* The Python value None of a slice bound is the empty sequence, a number n
\* is <<n>>.
None == <<>>

\* Python s[start:end] for start >= 0 and end None or >= 0.
PySlice(s, start, end) ==
    SubSeq(s, start + 1, IF end = None THEN Len(s) ELSE Min(end[1], Len(s)))

\* The sentinel character offset of padding and special tokens.
PadLoc == -1

\* config.pad_token, the pad class of the label vocabulary.
PadToken == "<PAD>"

\* input_pipeline.label_encoder.classes_: the label vocabulary, in order.
classes_ == <<PadToken, "A", "B">>

\* ENCODER.start, the id of the token that opens a document.
ENCODER_start == "_start_"

\* ------------------------------------------------------------------- state
VARIABLES
    config,          \* self.config: max_length, multi_label_sequences
    setup,           \* "new", "ready" (initialized) or "error" (_initialize raised)
    raised,          \* the class of the error raised, or "none"
    base_initialized,\* whether BaseModel._initialize has run
    pc,              \* position in predict: "idle", "loop", "tokens", "done"
    X,               \* predict's argument: the document texts
    arr_encoded,     \* the windows of the batch, in order
    labels,          \* per window, the decoded label of every position
    batch_probas,    \* per window, the probability vector of every position
    chunk_idx, doc_idx, start_of_token, end_of_doc,
    label_seq, position_seq, proba_seq,   \* the trusted slices of the window
    tok,             \* how many elements of the zip the token loop has taken
    doc_subseqs, doc_labels, doc_probs,
    all_subseqs, all_labels, all_probs,
    codec            \* the last relation-codec call and what it returned

foldVars == <<pc, X, arr_encoded, labels, batch_probas, chunk_idx, doc_idx,
              start_of_token, end_of_doc, label_seq, position_seq, proba_seq,
              tok, doc_subseqs, doc_labels, doc_probs, all_subseqs, all_labels,
              all_probs>>

setupVars == <<config, setup, raised, base_initialized>>

vars == <<setupVars, foldVars, codec>>

\* --------------------------------------------------------------- tokenizer
\* chunk_size and step_size as predict computes them.
ChunkSize(max_length) == max_length - 2

StepSize(max_length) == ChunkSize(max_length) \div 3

\* The text of document d (Python index d) with len characters.
Text(d, len) == [i \in 1..len |-> <<d, i - 1>>]

\* The character end offset of word token j (from 1) of a document: the
\* tokens are 1, 2, 1, 2, ... characters wide.
CharLoc(j) == j + (j \div 2)

\* The token sequence of a document of n word tokens: the start token, the
\* word tokens with their character end offsets, the end token.
Encoded(n) ==
    <<[id |-> ENCODER_start, loc |-> PadLoc]>>
    \o [j \in 1..n |-> [id |-> "word", loc |-> CharLoc(j)]]
    \o <<[id |-> "_classify_", loc |-> PadLoc]>>

\* Window k (from 0) of a token sequence: chunk_size tokens from k * step_size,
\* padded to max_length positions.
Window(enc, k, max_length) ==
    LET from == k * StepSize(max_length)
        body == SubSeq(enc, from + 1, Min(from + ChunkSize(max_length), Len(enc)))
        pad  == [i \in 1..(max_length - Len(body)) |-> [id |-> "_pad_", loc |-> PadLoc]]
        all  == body \o pad
    IN  [token_ids |-> [i \in 1..max_length |-> all[i].id],
         char_locs |-> [i \in 1..max_length |-> all[i].loc]]

\* The numbers of windows a token sequence of length len is cut into: every
\* window starts inside the sequence and the last one reaches its end; the
\* fewest and the most such windows are explored. With step_size 0 only a
\* sequence that fits one window is cut at all.
WindowCounts(len, max_length) ==
    LET ok == {K \in 1..len :
                 /\ (K - 1) * StepSize(max_length) < len
                 /\ (K - 1) * StepSize(max_length) + ChunkSize(max_length) >= len
                 /\ (StepSize(max_length) = 0 => K = 1)}
    IN  {K \in ok : (\A J \in ok : K <= J) \/ (\A J \in ok : K >= J)}

\* The windows of one document.
Windows(n, K, max_length) ==
    [k \in 1..K |-> Window(Encoded(n), k - 1, max_length)]

\* The shapes of the batches: per document its number of word tokens and its
\* number of windows.
BatchShapes(max_length) ==
    UNION {
        {sh \in [1..nd -> [n : 0..MaxTokens, K : 1..(MaxTokens + 2)]] :
            /\ SumSeq([d \in 1..nd |-> sh[d].n]) <= MaxTokens
            /\ SumSeq([d \in 1..nd |-> sh[d].K]) <= MaxChunks
            /\ \A d \in 1..nd : sh[d].K \in WindowCounts(sh[d].n + 2, max_length)}
        : nd \in 1..MaxDocs}

\* The windows of a batch, in order.
BatchWindows(sh, max_length) ==
    Flatten([d \in 1..Len(sh) |-> Windows(sh[d].n, sh[d].K, max_length)])

\* The number of word positions in the windows 1..c-1 and in the positions
\* 1..i of window c.
RECURSIVE WordRank(_, _, _)
WordRank(arr, c, i) ==
    IF c = 0 THEN 0
    ELSE IF i = 0 THEN WordRank(arr, c - 1, IF c = 1 THEN 0 ELSE Len(arr[c - 1].char_locs))
    ELSE WordRank(arr, c, i - 1) + (IF arr[c].char_locs[i] = PadLoc THEN 0 ELSE 1)

\* The decoded labels of a batch: free[r] on the r-th word position; on the
\* padding and special positions the pad class and "A" in turn.
LabelsOf(arr, free) ==
    [c \in 1..Len(arr) |->
        [i \in 1..Len(arr[c].char_locs) |->
            IF arr[c].char_locs[i] = PadLoc
            THEN (IF (c + i) % 2 = 0 THEN PadToken ELSE "A")
            ELSE free[WordRank(arr, c, i)]]]

\* The probability vector of position i of window c, over classes_, in
\* thousandths: every position of the batch has its own vector.
Proba(c, i, max_length) ==
    LET g == (c - 1) * max_length + i
    IN  <<1, g, 1000 - 1 - g>>

ProbasOf(arr, max_length) ==
    [c \in 1..Len(arr) |-> [i \in 1..max_length |-> Proba(c, i, max_length)]]

\* ------------------------------------------------------------------- setup
Init ==
    /\ config \in [max_length : MaxLengths, multi_label_sequences : BOOLEAN]
    /\ setup = "new"
    /\ raised = "none"
    /\ base_initialized = FALSE
    /\ pc = "idle"
    /\ X = <<>>
    /\ arr_encoded = <<>>
    /\ labels = <<>>
    /\ batch_probas = <<>>
    /\ chunk_idx = 0
    /\ doc_idx = -1
    /\ start_of_token = 0
    /\ end_of_doc = FALSE
    /\ label_seq = <<>>
    /\ position_seq = <<>>
    /\ proba_seq = <<>>
    /\ tok = 0
    /\ doc_subseqs = <<>>
    /\ doc_labels = <<>>
    /\ doc_probs = <<>>
    /\ all_subseqs = <<>>
    /\ all_labels = <<>>
    /\ all_probs = <<>>
    /\ codec = [op |-> "none"]

\* Mutant: the multi-label check made after the base initialization.
InitializeOutcome_CheckAfterBase(cfg) ==
    IF cfg.multi_label_sequences
    THEN [setup |-> "error", raised |-> "FinetuneError", base |-> TRUE]
    ELSE [setup |-> "ready", raised |-> "none", base |-> TRUE]

\* What Association._initialize does with a configuration: raise before the
\* base initialization, or run the base initialization.
InitializeOutcome(cfg) ==
    IF cfg.multi_label_sequences
    THEN [setup |-> "error", raised |-> "FinetuneError", base |-> FALSE]
    ELSE [setup |-> "ready", raised |-> "none", base |-> TRUE]

\* Association.__init__ -> BaseModel.__init__ -> self._initialize().
Initialize ==
    /\ setup = "new"
    /\ LET out == InitializeOutcome(config)
       IN  /\ setup' = out.setup
           /\ raised' = out.raised
           /\ base_initialized' = out.base
    /\ UNCHANGED <<config, foldVars, codec>>

\* self.multi_label as predict reads it: the configuration's labelling mode
\* (this file never assigns the attribute; a model that is set up has it FALSE).
multi_label == config.multi_label_sequences

\* ----------------------------------------------------------------- predict
\* predict up to the fold: the windows of X, the labels and probabilities of
\* every window, the empty outputs, doc_idx = -1.
Predict ==
    /\ setup = "ready"
    /\ pc = "idle"
    /\ \E sh \in BatchShapes(config.max_length) :
        LET arr == BatchWindows(sh, config.max_length)
            nfree == WordRank(arr, Len(arr), config.max_length)
        IN  \E free \in [1..nfree -> Labels] :
              /\ X' = [d \in 1..Len(sh) |-> Text(d - 1, CharLoc(sh[d].n) + 1)]
              /\ arr_encoded' = arr
              /\ labels' = LabelsOf(arr, free)
              /\ batch_probas' = ProbasOf(arr, config.max_length)
    /\ all_subseqs' = <<>>
    /\ all_labels' = <<>>
    /\ all_probs' = <<>>
    /\ doc_idx' = -1
    /\ chunk_idx' = 0
    /\ pc' = "loop"
    /\ UNCHANGED <<setupVars, codec, start_of_token, end_of_doc, label_seq,
                   position_seq, proba_seq, tok, doc_subseqs, doc_labels, doc_probs>>

\* Mutant: only the last window of the batch ends a document.
EndOfDoc_OnlyAtBatchEnd(arr, c) == c + 1 >= Len(arr)

\* Whether window c (Python index) opens a document, and whether it closes one.
StartOfDoc(arr, c) == arr[c + 1].token_ids[1] = ENCODER_start

EndOfDoc(arr, c) ==
    \/ c + 1 >= Len(arr)
    \/ arr[c + 2].token_ids[1] = ENCODER_start

\* Mutant: the last window of a longer document sliced from 0.
TrustedRange_LastFromZero(start_of_doc, end_of_doc_, step_size) ==
    IF start_of_doc
    THEN IF ~end_of_doc_
         THEN [start |-> 0, end |-> <<step_size * 2>>]
         ELSE [start |-> 0, end |-> None]
    ELSE IF end_of_doc_
         THEN [start |-> 0, end |-> None]
         ELSE [start |-> step_size, end |-> <<step_size * 2>>]

\* Mutant: a middle window sliced to its end.
TrustedRange_MiddleToEnd(start_of_doc, end_of_doc_, step_size) ==
    IF start_of_doc
    THEN IF ~end_of_doc_
         THEN [start |-> 0, end |-> <<step_size * 2>>]
         ELSE [start |-> 0, end |-> None]
    ELSE [start |-> step_size, end |-> None]

\* The slice bounds start, end of a window from its two flags.
TrustedRange(start_of_doc, end_of_doc_, step_size) ==
    IF start_of_doc
    THEN IF ~end_of_doc_
         THEN [start |-> 0, end |-> <<step_size * 2>>]
         ELSE [start |-> 0, end |-> None]
    ELSE IF end_of_doc_
         THEN [start |-> step_size, end |-> None]
         ELSE [start |-> step_size, end |-> <<step_size * 2>>]

\* Mutant: the offset reset on a first window, the spans of the previous
\* document kept.
Accumulators_KeepSpans(start_of_doc, acc) ==
    IF start_of_doc THEN [acc EXCEPT !.start_of_token = 0] ELSE acc

\* Mutant: the probability lists of the previous document kept.
Accumulators_ProbsNotReset(start_of_doc, acc) ==
    IF start_of_doc
    THEN [subseqs |-> <<>>, labels |-> <<>>, probs |-> acc.probs,
          start_of_token |-> 0]
    ELSE acc

\* Mutant: the accumulators never emptied.
Accumulators_NeverReset(start_of_doc, acc) == acc

\* Mutant: start_of_token set to 0 on every window.
Accumulators_OffsetResetEveryWindow(start_of_doc, acc) ==
    IF start_of_doc
    THEN [subseqs |-> <<>>, labels |-> <<>>, probs |-> <<>>, start_of_token |-> 0]
    ELSE [acc EXCEPT !.start_of_token = 0]

\* The accumulators a window starts with: emptied on the first window of a
\* document, kept otherwise.
Accumulators(start_of_doc, acc) ==
    IF start_of_doc
    THEN [subseqs |-> <<>>, labels |-> <<>>, probs |-> <<>>, start_of_token |-> 0]
    ELSE acc

\* Mutant: the label compared with the first span's label, not the last's.
FoldToken_CompareFirst(acc, label, position, proba, text) ==
    IF position = PadLoc
    THEN acc
    ELSE LET piece == PySlice(text, acc.start_of_token, <<position>>)
             n == Len(acc.subseqs)
         IN  IF acc.subseqs = <<>> \/ label # acc.labels[1]
             THEN [subseqs |-> Append(acc.subseqs, piece),
                   labels |-> Append(acc.labels, label),
                   probs |-> Append(acc.probs, <<proba>>),
                   start_of_token |-> position]
             ELSE [subseqs |-> [acc.subseqs EXCEPT ![n] = @ \o piece],
                   labels |-> acc.labels,
                   probs |-> [acc.probs EXCEPT ![Len(acc.probs)] = Append(@, proba)],
                   start_of_token |-> position]

\* Mutant: start_of_token advanced only when a span is extended.
FoldToken_NoAdvanceOnNewSpan(acc, label, position, proba, text) ==
    IF position = PadLoc THEN acc
    ELSE LET piece == PySlice(text, acc.start_of_token, <<position>>)
             n == Len(acc.subseqs)
         IN  IF acc.subseqs = <<>> \/ label # acc.labels[Len(acc.labels)]
             THEN [subseqs |-> Append(acc.subseqs, piece),
                   labels |-> Append(acc.labels, label),
                   probs |-> Append(acc.probs, <<proba>>),
                   start_of_token |-> acc.start_of_token]
             ELSE [subseqs |-> [acc.subseqs EXCEPT ![n] = @ \o piece],
                   labels |-> acc.labels,
                   probs |-> [acc.probs EXCEPT ![Len(acc.probs)] = Append(@, proba)],
                   start_of_token |-> position]

\* Mutant: the text of a padding token skipped, its probability vector
\* still appended to the open span.
FoldToken_PadCountsInMean(acc, label, position, proba, text) ==
    IF position = PadLoc
    THEN IF acc.probs = <<>>
         THEN acc
         ELSE [acc EXCEPT !.probs[Len(acc.probs)] = Append(@, proba)]
    ELSE LET piece == PySlice(text, acc.start_of_token, <<position>>)
             n == Len(acc.subseqs)
         IN  IF acc.subseqs = <<>> \/ label # acc.labels[Len(acc.labels)]
             THEN [subseqs |-> Append(acc.subseqs, piece),
                   labels |-> Append(acc.labels, label),
                   probs |-> Append(acc.probs, <<proba>>),
                   start_of_token |-> position]
             ELSE [subseqs |-> [acc.subseqs EXCEPT ![n] = @ \o piece],
                   labels |-> acc.labels,
                   probs |-> [acc.probs EXCEPT ![Len(acc.probs)] = Append(@, proba)],
                   start_of_token |-> position]

\* The body of the token loop for one (label, position, proba) of the zip.
FoldToken(acc, label, position, proba, text) ==
    IF position = PadLoc
    THEN acc
    ELSE LET piece == PySlice(text, acc.start_of_token, <<position>>)
             n == Len(acc.subseqs)
         IN  IF acc.subseqs = <<>> \/ label # acc.labels[Len(acc.labels)]
             THEN [subseqs |-> Append(acc.subseqs, piece),
                   labels |-> Append(acc.labels, label),
                   probs |-> Append(acc.probs, <<proba>>),
                   start_of_token |-> position]
             ELSE [subseqs |-> [acc.subseqs EXCEPT ![n] = @ \o piece],
                   labels |-> acc.labels,
                   probs |-> [acc.probs EXCEPT ![Len(acc.probs)] = Append(@, proba)],
                   start_of_token |-> position]

\* Mutant: the sums divided by the number of classes, not of vectors.
Mean_OverClasses(prob_seq) ==
    [k \in 1..Len(classes_) |->
        LET total == SumSeq([j \in 1..Len(prob_seq) |-> prob_seq[j][k]])
            g == Gcd(total, Len(classes_))
        IN  <<total \div g, Len(classes_) \div g>>]

\* np.mean(np.vstack(prob_seq), axis=0): per class, the sum over the vectors
\* divided by their number, as a fraction in lowest terms.
Mean(prob_seq) ==
    [k \in 1..Len(classes_) |->
        LET total == SumSeq([j \in 1..Len(prob_seq) |-> prob_seq[j][k]])
            g == Gcd(total, Len(prob_seq))
        IN  <<total \div g, Len(prob_seq) \div g>>]

\* dict(zip(classes_, probs)), without the pad class in multi-label mode.
ProbDict(probs, multi) ==
    [cls \in {classes_[k] : k \in 1..Len(classes_)} \ (IF multi THEN {PadToken} ELSE {}) |->
        probs[CHOOSE k \in 1..Len(classes_) : classes_[k] = cls]]

\* The head of the loop over the windows: the flags, the reset on the first
\* window of a document, the three slices.
BeginChunk ==
    /\ pc = "loop"
    /\ chunk_idx < Min(Len(labels), Len(batch_probas))
    /\ LET start_of_doc == StartOfDoc(arr_encoded, chunk_idx)
           eod == EndOfDoc(arr_encoded, chunk_idx)
           r == TrustedRange(start_of_doc, eod, StepSize(config.max_length))
           acc == Accumulators(start_of_doc,
                               [subseqs |-> doc_subseqs, labels |-> doc_labels,
                                probs |-> doc_probs, start_of_token |-> start_of_token])
       IN  /\ end_of_doc' = eod
           /\ doc_subseqs' = acc.subseqs
           /\ doc_labels' = acc.labels
           /\ doc_probs' = acc.probs
           /\ start_of_token' = acc.start_of_token
           /\ doc_idx' = IF start_of_doc THEN doc_idx + 1 ELSE doc_idx
           /\ label_seq' = PySlice(labels[chunk_idx + 1], r.start, r.end)
           /\ position_seq' = PySlice(arr_encoded[chunk_idx + 1].char_locs, r.start, r.end)
           /\ proba_seq' = PySlice(batch_probas[chunk_idx + 1], r.start, r.end)
    /\ tok' = 0
    /\ pc' = "tokens"
    /\ UNCHANGED <<setupVars, codec, X, arr_encoded, labels, batch_probas, chunk_idx,
                   all_subseqs, all_labels, all_probs>>

\* The length of zip(label_seq, position_seq, proba_seq).
ZipLen == Min(Len(label_seq), Min(Len(position_seq), Len(proba_seq)))

\* One iteration of the token loop.
TokenStep ==
    /\ pc = "tokens"
    /\ tok < ZipLen
    /\ LET acc == FoldToken([subseqs |-> doc_subseqs, labels |-> doc_labels,
                             probs |-> doc_probs, start_of_token |-> start_of_token],
                            label_seq[tok + 1], position_seq[tok + 1], proba_seq[tok + 1],
                            X[doc_idx + 1])
       IN  /\ doc_subseqs' = acc.subseqs
           /\ doc_labels' = acc.labels
           /\ doc_probs' = acc.probs
           /\ start_of_token' = acc.start_of_token
    /\ tok' = tok + 1
    /\ UNCHANGED <<setupVars, codec, pc, X, arr_encoded, labels, batch_probas, chunk_idx,
                   doc_idx, end_of_doc, label_seq, position_seq, proba_seq,
                   all_subseqs, all_labels, all_probs>>

\* The end of the loop body: on the last window of a document, the means and
\* the three appends; then the next window.
EndChunk ==
    /\ pc = "tokens"
    /\ tok >= ZipLen
    /\ IF end_of_doc
       THEN /\ all_subseqs' = Append(all_subseqs, doc_subseqs)
            /\ all_labels' = Append(all_labels, doc_labels)
            /\ all_probs' = Append(all_probs,
                   [j \in 1..Len(doc_probs) |-> ProbDict(Mean(doc_probs[j]), multi_label)])
       ELSE UNCHANGED <<all_subseqs, all_labels, all_probs>>
    /\ chunk_idx' = chunk_idx + 1
    /\ pc' = "loop"
    /\ UNCHANGED <<setupVars, codec, X, arr_encoded, labels, batch_probas, doc_idx,
                   start_of_token, end_of_doc, label_seq, position_seq, proba_seq, tok,
                   doc_subseqs, doc_labels, doc_probs>>

\* The loop over the windows is exhausted: predict hands the three outputs to
\* finetune_to_indico_sequence and returns.
Return ==
    /\ pc = "loop"
    /\ chunk_idx >= Min(Len(labels), Len(batch_probas))
    /\ pc' = "done"
    /\ UNCHANGED <<setupVars, codec, X, arr_encoded, labels, batch_probas, chunk_idx,
                   doc_idx, start_of_token, end_of_doc, label_seq, position_seq,
                   proba_seq, tok, doc_subseqs, doc_labels, doc_probs,
                   all_subseqs, all_labels, all_probs>>

Next == Initialize \/ Predict \/ BeginChunk \/ TokenStep \/ EndChunk \/ Return

Spec == Init /\ [][Next]_vars

\* ---------------------------------------------------------- relation codec
\* config.possible_associations + [pad_token] as the association encoder
\* orders them; transform gives the position of a type, from 0.
AssociationClasses == <<PadToken, "R1", "R2">>

AssociationId(type) ==
    (CHOOSE k \in 1..Len(AssociationClasses) : AssociationClasses[k] = type) - 1

\* np.expand_dims(association_encoder.transform(association_type), 1): one
\* row of one id per tuple.
AssociationIndicator(association_type) ==
    [j \in 1..Len(association_type) |-> <<AssociationId(association_type[j])>>]

\* The token indices the relation tuples are drawn from: inside
\* [0, max_length) and just outside it.
IndexChoices(max_length) == {0, 1, max_length - 1, max_length}

\* The error classes scipy raises when a csr_matrix shape is refused.
ShapeErrors == {"TypeError", "ValueError", "NotImplementedError"}

\* scipy's csr_matrix(arg1, shape).toarray() for a dense two-dimensional arg1:
\* the matrix is arg1 itself and shape = (rows, cols) has to be a pair of
\* integers equal to arg1's own dimensions. A sequence is no integer; only a
\* one-element array converts to one, and not in every scipy.
CsrMatrixToArray(arg1, shape) ==
    LET rows == shape[1]
        cols == shape[2]
        fits == /\ Len(rows) = 1 /\ Len(cols) = 1
                /\ rows[1] = Len(arg1)
                /\ \A j \in 1..Len(arg1) : cols[1] = Len(arg1[j])
    IN  {[status |-> "error", error |-> e] :
            e \in IF Len(rows) = 1 /\ Len(cols) = 1 THEN ShapeErrors ELSE {"TypeError"}}
        \cup (IF fits THEN {[status |-> "ok", matrix |-> arg1]} ELSE {})

\* AssociationPipeline.text_to_tokens_mask for one document with targets: the
\* associations matrix it yields, or the error it raises.
TextToTokensMask(association_type, association_idx, idx) ==
    CsrMatrixToArray(AssociationIndicator(association_type), <<idx, association_idx>>)

Encode ==
    /\ setup = "ready"
    /\ codec.op = "none"
    /\ \E n \in 1..MaxTuples :
       \E association_type \in [1..n -> {AssociationClasses[k] : k \in 1..Len(AssociationClasses)}],
          association_idx \in [1..n -> IndexChoices(config.max_length)],
          idx \in [1..n -> IndexChoices(config.max_length)] :
       \E out \in TextToTokensMask(association_type, association_idx, idx) :
          codec' = [op |-> "encode", association_type |-> association_type,
                    association_idx |-> association_idx, idx |-> idx, out |-> out]
    /\ UNCHANGED <<setupVars, foldVars>>

\* exp of a score of 0 or 1, in thousandths.
Exp(x) == IF x = 0 THEN 1000 ELSE 2718

\* softmax over the last axis, in thousandths.
Softmax(scores) ==
    [k \in 1..Len(scores) |->
        (Exp(scores[k]) * 1000) \div SumSeq([j \in 1..Len(scores) |-> Exp(scores[j])])]

\* argmax over the last axis: the first index (from 0) of the largest score.
ArgMax(scores) ==
    (CHOOSE k \in 1..Len(scores) :
        /\ \A j \in 1..Len(scores) : scores[j] <= scores[k]
        /\ \A j \in 1..(k - 1) : scores[j] < scores[k]) - 1

\* The association part of Association._predict_op: the pair of dictionaries
\* it returns, and the softmax it computes on the way.
PredictOp(associations) ==
    LET association_prob == [i \in 1..Len(associations) |->
                               [j \in 1..Len(associations[i]) |-> Softmax(associations[i][j])]]
        association_pred == [i \in 1..Len(associations) |->
                               [j \in 1..Len(associations[i]) |-> ArgMax(associations[i][j])]]
    IN  [association_prob |-> association_prob,
         predictions |-> [association |-> association_pred],
         probas |-> [association |-> association_pred]]

\* A score tensor [max_length, max_length, types] that is 1 at
\* [source, target, type] (indices from 0) and 0 elsewhere.
OneHot(max_length, source, target, type) ==
    [i \in 1..max_length |-> [j \in 1..max_length |->
        [k \in 1..Len(AssociationClasses) |->
            IF i = source + 1 /\ j = target + 1 /\ k = type + 1 THEN 1 ELSE 0]]]

Decode ==
    /\ setup = "ready"
    /\ codec.op = "none"
    /\ \E source \in 0..(config.max_length - 1), target \in 0..(config.max_length - 1),
          type \in 0..(Len(AssociationClasses) - 1) :
          codec' = [op |-> "decode", source |-> source, target |-> target, type |-> type,
                    out |-> PredictOp(OneHot(config.max_length, source, target, type))]
    /\ UNCHANGED <<setupVars, foldVars>>

NextCodec == Initialize \/ Encode \/ Decode

SpecCodec == Init /\ [][NextCodec]_vars

\* ------------------------------------------------- reference definitions
\* The role of window c (Python index) in the loaded batch.
IsFirst(c) == StartOfDoc(arr_encoded, c)

IsLast(c) == EndOfDoc(arr_encoded, c)

\* The document (Python index) window c belongs to, the windows of document
\* d, and the place of window c among the windows of its document (from 0).
DocOfChunk(c) == Cardinality({b \in 0..c : IsFirst(b)}) - 1

ChunksOfDoc(d) == {c \in 0..(Len(arr_encoded) - 1) : DocOfChunk(c) = d}

WindowIndex(c) == Cardinality({b \in ChunksOfDoc(DocOfChunk(c)) : b < c})

\* The position in its document's token sequence (from 0) of position i
\* (from 0) of window c.
AbsPos(c, i) == WindowIndex(c) * StepSize(config.max_length) + i

\* Whether window c holds a token of its document at position i (from 0).
HoldsToken(c, i) ==
    /\ i \in 0..(ChunkSize(config.max_length) - 1)
    /\ arr_encoded[c + 1].char_locs[i + 1] # PadLoc

\* Whether the slice predict takes of window c contains position i (from 0).
InTrusted(c, i) ==
    LET r == TrustedRange(IsFirst(c), IsLast(c), StepSize(config.max_length))
    IN  /\ r.start <= i
        /\ i < (IF r.end = None THEN config.max_length ELSE r.end[1])

\* The four-way rule of the trusted range, as a table.
TableLo(c) == IF IsFirst(c) THEN 0 ELSE StepSize(config.max_length)

TableHi(c) == IF IsLast(c) THEN config.max_length ELSE 2 * StepSize(config.max_length)

\* The tokens of the table's range of window c, and of all the windows of
\* document d in order; then those that are not padding.
TableSlice(c) ==
    [j \in 1..(TableHi(c) - TableLo(c)) |->
        [label |-> labels[c + 1][TableLo(c) + j],
         position |-> arr_encoded[c + 1].char_locs[TableLo(c) + j],
         proba |-> batch_probas[c + 1][TableLo(c) + j]]]

FirstChunk(d) == CHOOSE c \in ChunksOfDoc(d) : \A b \in ChunksOfDoc(d) : c <= b

TrustedTokens(d) ==
    Flatten([k \in 1..Cardinality(ChunksOfDoc(d)) |-> TableSlice(FirstChunk(d) + k - 1)])

IsWord(t) == t.position # PadLoc

\* The number of word tokens in the table's range of the first window of
\* document d.
WordsOfFirstWindow(d) == Len(SelectSeq(TableSlice(FirstChunk(d)), IsWord))

WordTokens(d) == SelectSeq(TrustedTokens(d), IsWord)

\* The span-merging step run once over a token sequence, from no span.
RECURSIVE MergeOnce(_, _, _)
MergeOnce(acc, tokens, text) ==
    IF tokens = <<>> THEN acc
    ELSE MergeOnce(FoldToken(acc, Head(tokens).label, Head(tokens).position,
                             Head(tokens).proba, text),
                   Tail(tokens), text)

NoSpans == [subseqs |-> <<>>, labels |-> <<>>, probs |-> <<>>, start_of_token |-> 0]

\* The first tokens of the maximal runs of equal labels of a token sequence,
\* the last token of the run that starts at i, and the rank of that run.
RunStarts(T) == {i \in 1..Len(T) : i = 1 \/ T[i].label # T[i - 1].label}

RunEnd(T, i) ==
    CHOOSE j \in i..Len(T) :
        /\ \A m \in i..j : m = i \/ m \notin RunStarts(T)
        /\ (j = Len(T) \/ j + 1 \in RunStarts(T))

RunRank(T, i) == Cardinality({b \in RunStarts(T) : b <= i})

\* The characters a..b-1 of document d (Python indices).
TextRange(d, a, b) == [m \in 1..(b - a) |-> <<d, a + m - 1>>]

\* The documents (Python index) predict has finalized so far.
Finalized == 0..(Len(all_subseqs) - 1)

AtChunkEnd == pc \in {"loop", "done"}

\* ------------------------------------------------------------------ claims
\* C1: after predict has folded a batch, every non-padding token of every
\* document lies in the trusted range of exactly one window of its document.
C1_Coverage ==
    pc = "done" =>
        \A c \in 0..(Len(arr_encoded) - 1) : \A i \in 0..(config.max_length - 1) :
            HoldsToken(c, i) =>
                Cardinality({b \in ChunksOfDoc(DocOfChunk(c)) :
                    LET j == AbsPos(c, i) - WindowIndex(b) * StepSize(config.max_length)
                    IN  j >= 0 /\ HoldsToken(b, j) /\ InTrusted(b, j)}) = 1

\* A document of at least three windows was folded, and both a middle window
\* and its last window hold a word token in their trusted range.
C1_Witness ==
    /\ pc = "done"
    /\ \E c \in 0..(Len(arr_encoded) - 1), b \in 0..(Len(arr_encoded) - 1) :
        /\ DocOfChunk(c) = DocOfChunk(b)
        /\ ~IsFirst(c) /\ ~IsLast(c) /\ ~IsFirst(b) /\ IsLast(b)
        /\ \E i \in 0..(config.max_length - 1) : HoldsToken(c, i) /\ InTrusted(c, i)
        /\ \E i \in 0..(config.max_length - 1) : HoldsToken(b, i) /\ InTrusted(b, i)

\* C2: inside a window, the label, offset and probability slices are the
\* positions [lo, hi) of the window, with lo and hi given by the four-way table
\* on (is_first, is_last) and step.
C2_TrustedRangeRule ==
    pc = "tokens" =>
        LET c == chunk_idx
            step == StepSize(config.max_length)
            lo == IF IsFirst(c) /\ IsLast(c) THEN 0
                  ELSE IF IsFirst(c) THEN 0
                  ELSE IF IsLast(c) THEN step
                  ELSE step
            hi == IF IsFirst(c) /\ IsLast(c) THEN config.max_length
                  ELSE IF IsFirst(c) THEN 2 * step
                  ELSE IF IsLast(c) THEN config.max_length
                  ELSE 2 * step
        IN  /\ label_seq = [j \in 1..(hi - lo) |-> labels[c + 1][lo + j]]
            /\ position_seq = [j \in 1..(hi - lo) |-> arr_encoded[c + 1].char_locs[lo + j]]
            /\ proba_seq = [j \in 1..(hi - lo) |-> batch_probas[c + 1][lo + j]]

\* The token loop runs on a window that is neither first nor last, with
\* step 2, and its slice is not empty.
C2_Witness ==
    /\ pc = "tokens"
    /\ ~IsFirst(chunk_idx) /\ ~IsLast(chunk_idx)
    /\ StepSize(config.max_length) = 2
    /\ Len(label_seq) = 2

\* C3: the span texts and labels of a finalized document are those the
\* span-merging step gives when run once over the concatenation of the trusted
\* slices of its windows.
C3_WindowingIndependence ==
    AtChunkEnd =>
        \A d \in Finalized :
            LET once == MergeOnce(NoSpans, TrustedTokens(d), X[d + 1])
            IN  /\ all_subseqs[d + 1] = once.subseqs
                /\ all_labels[d + 1] = once.labels

\* A finalized document of at least three windows has a span whose tokens come
\* from more than one window.
C3_Witness ==
    /\ pc = "done"
    /\ \E d \in Finalized :
        /\ Cardinality(ChunksOfDoc(d)) >= 3
        /\ Len(WordTokens(d)) >= 3
        /\ WordsOfFirstWindow(d) = 1
        /\ Len(all_labels[d + 1]) = 1

\* C4: a finalized document has one span per maximal run of equal labels of
\* its trusted non-padding tokens, in order, with the run's label and the text
\* from the end offset of the token before the run (0 for the first run) to
\* the end offset of the run's last token.
C4_SpanMerge ==
    AtChunkEnd =>
        \A d \in Finalized :
            LET T == WordTokens(d)
            IN  /\ Len(all_subseqs[d + 1]) = Cardinality(RunStarts(T))
                /\ Len(all_labels[d + 1]) = Cardinality(RunStarts(T))
                /\ \A i \in RunStarts(T) :
                    /\ all_labels[d + 1][RunRank(T, i)] = T[i].label
                    /\ all_subseqs[d + 1][RunRank(T, i)] =
                           TextRange(d, IF i = 1 THEN 0 ELSE T[i - 1].position,
                                     T[RunEnd(T, i)].position)

\* A finalized document in which a label comes back after another one.
C4_Witness ==
    \E d \in Finalized : all_labels[d + 1] = <<"A", "B", "A">>

\* C5: the probability mapping of every finalized span is over the label
\* vocabulary, and per class its value times the number of tokens of the
\* span's run equals the sum of those tokens' probabilities for the class.
C5_MeanProbability ==
    AtChunkEnd =>
        \A d \in Finalized :
            LET T == WordTokens(d)
            IN  /\ Len(all_probs[d + 1]) = Cardinality(RunStarts(T))
                /\ \A i \in RunStarts(T) :
                    LET dict == all_probs[d + 1][RunRank(T, i)]
                        members == i..RunEnd(T, i)
                    IN  /\ DOMAIN dict = {classes_[k] : k \in 1..Len(classes_)}
                        /\ \A k \in 1..Len(classes_) :
                            LET mean == dict[classes_[k]]
                            IN  /\ mean[2] > 0
                                /\ mean[1] * Cardinality(members) =
                                   mean[2] * SumSeq([m \in 1..Cardinality(members) |->
                                                        T[i + m - 1].proba[k]])

\* A finalized span that averages the vectors of two tokens of two windows.
C5_Witness ==
    /\ pc = "done"
    /\ \E d \in Finalized :
        /\ Cardinality(ChunksOfDoc(d)) >= 2
        /\ Len(WordTokens(d)) = 2
        /\ Len(all_probs[d + 1]) = 1
        /\ WordsOfFirstWindow(d) = 1

\* A relation index inside [0, max_length).
InRange(i) == i >= 0 /\ i < config.max_length

\* C6: with every index in range, the encode call yields a matrix of
\* max_length rows and columns that holds the type id of every tuple at
\* [source index, target index] and the pad id in every other cell.
C6_RelationEncode ==
    (/\ codec.op = "encode"
     /\ \A j \in 1..Len(codec.idx) : InRange(codec.idx[j]) /\ InRange(codec.association_idx[j]))
    =>
        /\ codec.out.status = "ok"
        /\ Len(codec.out.matrix) = config.max_length
        /\ \A r \in 1..config.max_length :
            /\ Len(codec.out.matrix[r]) = config.max_length
            /\ \A c \in 1..config.max_length :
                IF \E j \in 1..Len(codec.idx) :
                       codec.idx[j] = r - 1 /\ codec.association_idx[j] = c - 1
                THEN \E j \in 1..Len(codec.idx) :
                       /\ codec.idx[j] = r - 1 /\ codec.association_idx[j] = c - 1
                       /\ codec.out.matrix[r][c] = AssociationId(codec.association_type[j])
                ELSE codec.out.matrix[r][c] = AssociationId(PadToken)

\* C7: decoding the one-hot score tensor of a non-empty relation gives the
\* type id at [source, target] and the confidence 1.0 (1000 thousandths) there.
C7_RelationRoundTrip ==
    (codec.op = "decode" /\ codec.type # AssociationId(PadToken)) =>
        /\ codec.out.predictions.association[codec.source + 1][codec.target + 1] = codec.type
        /\ codec.out.probas.association[codec.source + 1][codec.target + 1] * 1000 = 1000

\* C8: a configuration whose step is 0 is rejected at setup, so it is never
\* set up and predict never runs on it.
C8_DegenerateRejected ==
    (StepSize(config.max_length) = 0 /\ setup # "new") =>
        (setup = "error" /\ pc = "idle")

\* C9: in multi-label mode _initialize raises FinetuneError and the base
\* initialization never runs, so predict is never started.
C9_MultiLabelRejected ==
    config.multi_label_sequences =>
        /\ base_initialized = FALSE
        /\ pc = "idle"
        /\ (setup # "new" => (setup = "error" /\ raised = "FinetuneError"))

\* _initialize has run on a multi-label configuration.
C9_Witness ==
    config.multi_label_sequences /\ setup = "error"

\* C10: with an index out of range, the encode call raises an error of the
\* IndexError class and yields no matrix.
C10_OutOfRangeIndexError ==
    (/\ codec.op = "encode"
     /\ \E j \in 1..Len(codec.idx) : ~InRange(codec.idx[j]) \/ ~InRange(codec.association_idx[j]))
    =>
        /\ codec.out.status = "error"
        /\ codec.out.error = "IndexError"

\* C11: a finalized document without any trusted non-padding token has no
\* span: its texts, labels and probability mappings are empty; and once
\* predict returns, every such document of the batch has been finalized.
C11_EmptyDocument ==
    AtChunkEnd =>
        /\ \A d \in Finalized :
            WordTokens(d) = <<>> =>
                /\ all_subseqs[d + 1] = <<>>
                /\ all_labels[d + 1] = <<>>
                /\ all_probs[d + 1] = <<>>
        /\ (pc = "done" => \A d \in 0..(Len(X) - 1) : d \in Finalized)

\* An empty document was finalized after a document that has spans.
C11_Witness ==
    /\ pc = "done"
    /\ \E d \in Finalized :
        /\ d > 0
        /\ WordTokens(d) = <<>>
        /\ all_labels[d] # <<>>
        /\ all_labels[d + 1] = <<>>

\* The document of the window a probability vector was predicted in.
DocOfProba(proba) == DocOfChunk((proba[2] - 1) \div config.max_length)

\* C12: a first window starts from empty accumulators and offset 0 before
\* any of its tokens is folded; every character and every probability
\* vector of a span belongs to the span's own document; and the first span
\* of a document starts at character 0 of that document, whatever the last
\* label of the previous document was.
C12_DocumentIsolation ==
    /\ (pc = "tokens" /\ tok = 0 /\ IsFirst(chunk_idx)) =>
            /\ doc_subseqs = <<>>
            /\ doc_labels = <<>>
            /\ doc_probs = <<>>
            /\ start_of_token = 0
    /\ pc = "tokens" =>
            /\ \A j \in 1..Len(doc_subseqs) :
                \A k \in 1..Len(doc_subseqs[j]) : doc_subseqs[j][k][1] = doc_idx
            /\ \A j \in 1..Len(doc_probs) :
                \A k \in 1..Len(doc_probs[j]) : DocOfProba(doc_probs[j][k]) = doc_idx
            /\ doc_subseqs # <<>> =>
                /\ doc_subseqs[1] # <<>>
                /\ doc_subseqs[1][1] = <<doc_idx, 0>>
    /\ AtChunkEnd =>
            \A d \in Finalized :
                /\ \A j \in 1..Len(all_subseqs[d + 1]) :
                    \A k \in 1..Len(all_subseqs[d + 1][j]) :
                        all_subseqs[d + 1][j][k][1] = d
                /\ all_subseqs[d + 1] # <<>> =>
                    /\ all_subseqs[d + 1][1] # <<>>
                    /\ all_subseqs[d + 1][1][1] = <<d, 0>>

\* The second document has opened its first span with the label the first
\* document ended on.
C12_Witness ==
    /\ pc = "tokens"
    /\ doc_idx = 1
    /\ Len(all_labels) = 1
    /\ all_labels[1] # <<>>
    /\ Len(doc_labels) = 1
    /\ doc_labels[1] = all_labels[1][Len(all_labels[1])]

\* Window c is the last of its document: the next window is flagged first,
\* or there is no next window.
LastWindow(c) == c + 1 = Len(arr_encoded) \/ IsFirst(c + 1)

\* The windows whose trusted range has been folded completely.
FoldedChunks == 0..(chunk_idx - 1)

\* C13: the output holds one result for each last window folded so far and
\* nothing else, so a result is appended when and only when the last window
\* of a document has been folded, never for another window; the result at
\* place d is the one of document d; after the batch there is exactly one
\* result per input document.
C13_FinalizeOnce ==
    pc \in {"loop", "tokens", "done"} =>
        /\ Len(all_subseqs) = Cardinality({c \in FoldedChunks : LastWindow(c)})
        /\ Len(all_labels) = Len(all_subseqs)
        /\ Len(all_probs) = Len(all_subseqs)
        /\ pc = "tokens" => (end_of_doc <=> LastWindow(chunk_idx))
        /\ \A d \in Finalized :
            /\ \A c \in ChunksOfDoc(d) : c \in FoldedChunks
            /\ all_labels[d + 1] = MergeOnce(NoSpans, WordTokens(d), X[d + 1]).labels
        /\ pc = "done" => Len(all_subseqs) = Len(X)

\* A batch of two documents, the first of several windows, was returned.
C13_Witness ==
    /\ pc = "done"
    /\ Len(X) = 2
    /\ Len(all_subseqs) = 2
    /\ Cardinality(ChunksOfDoc(0)) >= 2
    /\ all_labels[1] # all_labels[2]

\* The token the next step of the token loop folds is a padding token.
AtPadToken == pc = "tokens" /\ tok < ZipLen /\ position_seq[tok + 1] = PadLoc

\* The result of a document whose trusted ranges hold only its non-padding
\* tokens.
WithoutPadding(d) ==
    LET acc == MergeOnce(NoSpans, WordTokens(d), X[d + 1])
    IN  [subseqs |-> acc.subseqs,
         labels |-> acc.labels,
         probs |-> [j \in 1..Len(acc.probs) |->
                        ProbDict(Mean(acc.probs[j]), multi_label)]]

\* C14: folding a token whose offset is the sentinel -1 changes neither
\* start_of_token nor the span texts, span labels and span probability
\* lists, whatever its label and probability vector; and the result of a
\* document is the one obtained with the sentinel tokens removed from its
\* trusted ranges.
C14_PaddingNoOp ==
    /\ [][AtPadToken =>
            UNCHANGED <<start_of_token, doc_subseqs, doc_labels, doc_probs>>]_vars
    /\ [](AtChunkEnd =>
            \A d \in Finalized :
                /\ all_subseqs[d + 1] = WithoutPadding(d).subseqs
                /\ all_labels[d + 1] = WithoutPadding(d).labels
                /\ all_probs[d + 1] = WithoutPadding(d).probs)

\* A padding token carrying the label of the open span has just been folded.
C14_Witness ==
    /\ pc = "tokens"
    /\ tok > 0
    /\ position_seq[tok] = PadLoc
    /\ doc_labels # <<>>
    /\ label_seq[tok] = doc_labels[Len(doc_labels)]

\* C15: throughout the fold the lists of span texts, span labels and span
\* probability lists have one length and no probability list is empty; the
\* three sequences emitted for a document have one length.
C15_AccumulatorsAligned ==
    /\ Len(doc_subseqs) = Len(doc_labels)
    /\ Len(doc_labels) = Len(doc_probs)
    /\ \A j \in 1..Len(doc_probs) : doc_probs[j] # <<>>
    /\ \A d \in Finalized :
        /\ d + 1 <= Len(all_labels)
        /\ d + 1 <= Len(all_probs)
        /\ Len(all_subseqs[d + 1]) = Len(all_labels[d + 1])
        /\ Len(all_labels[d + 1]) = Len(all_probs[d + 1])

\* A document holds two spans, one of them of two tokens.
C15_Witness ==
    /\ pc = "tokens"
    /\ Len(doc_subseqs) = 2
    /\ \E j \in 1..Len(doc_probs) : Len(doc_probs[j]) = 2

\* The character end-offsets of the non-padding tokens of document d do not
\* decrease in token order.
OffsetsNonDecreasing(d) ==
    LET T == WordTokens(d)
    IN  \A i \in 1..(Len(T) - 1) : T[i].position <= T[i + 1].position

\* The character end-offset of the last trusted non-padding token of
\* document d, 0 when it has none.
LastOffset(d) ==
    LET T == WordTokens(d)
    IN  IF T = <<>> THEN 0 ELSE T[Len(T)].position

\* C16: for a document whose token end-offsets do not decrease,
\* start_of_token never decreases while the document is folded, the span
\* texts held so far concatenate to the document's text up to
\* start_of_token, and at finalization the span texts concatenate to the
\* document's text from 0 to the end-offset of its last trusted non-padding
\* token, nothing omitted and nothing repeated.
C16_SpansTilePrefix ==
    /\ [][(/\ pc # "idle"
            /\ doc_idx' = doc_idx
            /\ start_of_token' # start_of_token
            /\ OffsetsNonDecreasing(doc_idx)) =>
                start_of_token' > start_of_token]_vars
    /\ []((pc = "tokens" /\ OffsetsNonDecreasing(doc_idx)) =>
            Flatten(doc_subseqs) = PySlice(X[doc_idx + 1], 0, <<start_of_token>>))
    /\ [](AtChunkEnd =>
            \A d \in Finalized :
                OffsetsNonDecreasing(d) =>
                    /\ Flatten(all_subseqs[d + 1]) = TextRange(d, 0, LastOffset(d))
                    /\ Flatten(all_subseqs[d + 1]) =
                            PySlice(X[d + 1], 0, <<LastOffset(d)>>))

\* A document of several windows whose spans, at least two, were laid end
\* to end over more than one window.
C16_Witness ==
    /\ pc = "done"
    /\ \E d \in Finalized :
        /\ Cardinality(ChunksOfDoc(d)) >= 2
        /\ Len(all_subseqs[d + 1]) >= 2
        /\ WordsOfFirstWindow(d) < Len(WordTokens(d))
        /\ Len(Flatten(all_subseqs[d + 1])) = LastOffset(d)

====
